---- MODULE Spec2Model ----
(***************************************************************************)
(* api-bridge: generic CRUD REST handlers over relational tables.          *)
(*                                                                         *)
(* The repository holds three variants of the same handlers:               *)
(*   "core"   src/api_bridge/core.py  class APIBridge (several databases)   *)
(*   "router" src/router.py           class ApiBridgeRouter (one engine)    *)
(*   "bridge" src/bridge.py           module-level handlers (one engine)    *)
(* A run of the model is one process running one variant (impl), chosen in *)
(* Init.  A handler is split where it makes a database round trip:  the     *)
(* first step resolves, opens the session and executes the statement, the   *)
(* second commits (or, for List, runs the COUNT) and builds the response.   *)
(***************************************************************************)
EXTENDS Integers, Sequences, FiniteSets, TLC

\* ---------------------------------------------------------------- bounds
MaxId == 3          \* ids of a table range over 1..MaxId
MaxRequests == 2    \* requests started in one run
MaxPage == 2        \* page numbers 1..MaxPage
MaxLimit == 2       \* page sizes 1..MaxLimit
MaxDdl == 1         \* tables dropped or added since startup

\* ------------------------------------------------------- the environment
Impls == {"core", "router", "bridge"}

\* logical database names of the configuration (example_app/v2_impl.py)
DbNames == {"db1", "db2"}
\* a name no configuration registers
UnknownDb == "nodb"
RequestDbNames == DbNames \cup {UnknownDb}
\* the database the single engine of router.py / bridge.py is bound to
DefaultDb == "db1"

\* tables of the live catalog, and a name that is in no catalog
CatalogTables == {"items"}
UnknownTable == "ghost"
RequestTables == CatalogTables \cup {UnknownTable}

Ids == 1 .. MaxId
\* columns every participating table has: the id key, one data column and
\* the reserved soft-delete columns
DataColumns == {"name", "active", "deleted", "deleted_by_guid", "deleted_at"}
Columns == {"id"} \cup DataColumns
UnknownColumn == "bogus"
PayloadKeys == DataColumns \cup {UnknownColumn}

NULL == "NULL"
\* a key the payload does not carry
Absent == "-"
Names == {"a", "b"}
Guids == {"42"}
Times == {"t1", "t2"}

\* a payload / a statement's value map: every key, Absent where not given
NoValues == [k \in PayloadKeys |-> Absent]
Keys(values) == {k \in PayloadKeys : values[k] # Absent}
Payload(name, bogus) ==
    [k \in PayloadKeys |-> IF k = "name" THEN name
                           ELSE IF k = UnknownColumn THEN bogus ELSE Absent]
\* request bodies: a known column, an unknown one, or both (never empty)
Payloads == {Payload("a", Absent), Payload("b", Absent),
             Payload(Absent, "x"), Payload("b", "x")}

\* an INSERT that stores the column defaults instead of the values
NewRow_defaults(values) == [c \in DataColumns |-> NULL]
\* the row an INSERT of `values` makes: columns not given take NULL
NewRow(values) == [c \in DataColumns |-> IF values[c] # Absent THEN values[c] ELSE NULL]
\* the row an UPDATE ... SET values makes of `row`
SetRow(row, values) == [c \in DataColumns |-> IF values[c] # Absent THEN values[c] ELSE row[c]]

\* ------------------------------------------------------------ statements
NoStmt == [verb |-> "NONE", table |-> "", id |-> 0, values |-> NoValues]
Stmt(verb, table, id, values) == [verb |-> verb, table |-> table, id |-> id, values |-> values]

\* ------------------------------------------------------------- responses
NoBody == [data |-> <<>>, total_records |-> 0, limit |-> 0, skip |-> 0,
           total_pages |-> 0, current_page |-> 0,
           deleted_at |-> NULL, deleted_by |-> NULL]
NoOutcome == [kind |-> "None", status |-> 0, cause |-> "", body |-> NoBody]
\* a handler's return value (HTTP 200)
Success(body) == [kind |-> "Success", status |-> 200, cause |-> "", body |-> body]
\* fastapi.HTTPException(status_code, detail): the {status, detail} response
HTTPException(status, cause) ==
    [kind |-> "HTTPException", status |-> status, cause |-> cause, body |-> NoBody]
\* an exception that is not an HTTPException leaving the handler
RawException(type, cause) == [kind |-> type, status |-> 0, cause |-> cause, body |-> NoBody]
\* `except Exception as e: raise HTTPException(status_code=500, detail=f"...{str(e)}")`
Wrap500(e) == HTTPException(500, e.cause)

VARIABLES
    impl,           \* the variant this process runs
    cfg,            \* db_configs: per logical database, its type and reachability
    phase,          \* "startup" | "serving" | "failed"
    engines,        \* names registered in self.engines / the single engine
    tables,         \* committed contents: database -> table -> id -> row
    autoinc,        \* database -> table -> next AUTO_INCREMENT id
    slots,          \* request slots (threads of the serving pool)
    req,            \* slot -> the request it runs, its position, result.rowcount
    sess,           \* slot -> the request's session: open, pending statement
    outcome,        \* slot -> the response of the request
    sent,           \* slot -> statements the request sent to the database
    openSessions,   \* sessions opened and not closed
    nreq,           \* requests started
    last            \* history: the record created since the last other write

vars == <<impl, cfg, phase, engines, tables, autoinc, slots, req, sess,
          outcome, sent, openSessions, nreq, last>>

\* ------------------------------------------------------ slots and sessions
IdleReq == [pc |-> "idle", op |-> "", db |-> "", table |-> "", id |-> 0,
            record |-> NoValues, guid |-> NULL, time |-> NULL,
            page |-> 0, limit |-> 0, rowcount |-> -1]
Request(op, db, table, id, record, guid, time, page, limit) ==
    [pc |-> "idle", op |-> op, db |-> db, table |-> table, id |-> id,
     record |-> record, guid |-> guid, time |-> time, page |-> page, limit |-> limit,
     rowcount |-> -1]

\* history: no record was created since the last request that could change
\* a table
NoLast == [db |-> "", table |-> "", id |-> 0, record |-> NoValues]
ReadOps == {"List", "TestConnection"}

\* a session: open or not, the statement executed and not yet committed,
\* the rows a SELECT fetched, and the committed contents of the table that
\* the SELECT, the first statement of the session's transaction, read
NoSession == [open |-> FALSE, db |-> "", pending |-> NoStmt, rows |-> <<>>,
              snapshot |-> <<>>]
OpenSession(db, pending, rows) ==
    [open |-> TRUE, db |-> db, pending |-> pending, rows |-> rows, snapshot |-> <<>>]

MutatingOps == {"Create", "Update", "Patch", "SoftDelete", "HardDelete"}
DataOps == MutatingOps \cup {"List"}
Ops == DataOps \cup {"TestConnection"}

\* ------------------------------------------------------------ the database
\* the rows of a table in primary-key order, as SELECT * returns them
RECURSIVE SortedIds(_)
SortedIds(S) ==
    IF S = {} THEN <<>>
    ELSE LET m == CHOOSE x \in S : \A y \in S : x <= y
         IN <<m>> \o SortedIds(S \ {m})

ColumnOrder == <<"id", "name", "active", "deleted", "deleted_by_guid", "deleted_at">>
\* one result row of SELECT *: the values in column order
RowTuple(id, row) ==
    <<id, row["name"], row["active"], row["deleted"], row["deleted_by_guid"], row["deleted_at"]>>

Min(a, b) == IF a <= b THEN a ELSE b

\* a SELECT that drops its OFFSET
SelectRows_first(t, limit, offset) ==
    LET ids == SortedIds(DOMAIN t)
        page == SubSeq(ids, 1, Min(limit, Len(ids)))
    IN [i \in 1 .. Len(page) |-> RowTuple(page[i], t[page[i]])]

\* SELECT * FROM t LIMIT limit OFFSET offset
SelectRows(t, limit, offset) ==
    LET ids == SortedIds(DOMAIN t)
        n == Len(ids)
        page == SubSeq(ids, offset + 1, Min(offset + limit, n))
    IN [i \in 1 .. Len(page) |-> RowTuple(page[i], t[page[i]])]

\* a COUNT that leaves out the soft-deleted rows
CountRows_live(t) == Cardinality({i \in DOMAIN t : t[i]["deleted"] # "1"})
\* SELECT COUNT(*) FROM t
CountRows(t) == Cardinality(DOMAIN t)

\* The database's answer to a statement of a session bound to db: an error
\* (unknown table or column) or the number of rows matched.
DbExecute(db, stmt) ==
    IF stmt.table \notin DOMAIN tables[db]
    THEN [ok |-> FALSE, cause |-> "NoSuchTable", rowcount |-> 0]
    ELSE IF ~(Keys(stmt.values) \subseteq DataColumns)
    THEN [ok |-> FALSE, cause |-> "UnknownColumn", rowcount |-> 0]
    ELSE [ok |-> TRUE, cause |-> "",
          rowcount |-> IF stmt.verb = "INSERT" THEN 1
                       ELSE IF stmt.verb \in {"UPDATE", "DELETE"}
                       THEN (IF stmt.id \in DOMAIN tables[db][stmt.table] THEN 1 ELSE 0)
                       ELSE 0]

\* an UPDATE without its WHERE id = :id
ApplyToTable_all(t, stmt) ==
    IF stmt.verb = "INSERT"
    THEN [i \in DOMAIN t \cup {stmt.id} |-> IF i = stmt.id THEN NewRow(stmt.values) ELSE t[i]]
    ELSE IF stmt.verb = "UPDATE"
    THEN [i \in DOMAIN t |-> SetRow(t[i], stmt.values)]
    ELSE IF stmt.verb = "DELETE"
    THEN [i \in DOMAIN t \ {stmt.id} |-> t[i]]
    ELSE t

\* the contents of a table once the statement is committed
ApplyToTable(t, stmt) ==
    IF stmt.verb = "INSERT"
    THEN [i \in DOMAIN t \cup {stmt.id} |-> IF i = stmt.id THEN NewRow(stmt.values) ELSE t[i]]
    ELSE IF stmt.verb = "UPDATE"
    THEN [i \in DOMAIN t |-> IF i = stmt.id THEN SetRow(t[i], stmt.values) ELSE t[i]]
    ELSE IF stmt.verb = "DELETE"
    THEN [i \in DOMAIN t \ {stmt.id} |-> t[i]]
    ELSE t

\* session.commit(): the pending statement of the session becomes visible
Committed(db, stmt) ==
    IF stmt.verb \in {"INSERT", "UPDATE", "DELETE"} /\ stmt.table \in DOMAIN tables[db]
    THEN [tables EXCEPT ![db][stmt.table] = ApplyToTable(@, stmt)]
    ELSE tables

\* ------------------------------------------------------------------ startup
\* SERVERS of APIBridge._get_db_connection
\* create_engine is called without isolation_level, so a session runs at the
\* server's default: REPEATABLE READ on MySQL (InnoDB), READ COMMITTED on
\* PostgreSQL
Isolation(config) ==
    IF config.type = "mysql" THEN "REPEATABLE READ" ELSE "READ COMMITTED"

\* the session of a List once its SELECT on table t of db has run
SelectSession(db, t, limit, offset) ==
    [OpenSession(db, NoStmt, <<>>) EXCEPT !.rows = SelectRows(tables[db][t], limit, offset),
                                         !.snapshot = tables[db][t]]

\* the contents of table t a later statement of the session reads: the
\* snapshot of its first read under REPEATABLE READ, what is committed by
\* now under READ COMMITTED
ReadView(session, t) ==
    IF Isolation(cfg[session.db]) = "REPEATABLE READ"
    THEN session.snapshot
    ELSE tables[session.db][t]

\* an AUTO_INCREMENT counter that hands out the same id again
NextAutoinc_stuck(db, stmt) == autoinc
\* the AUTO_INCREMENT counters once the statement is executed: an INSERT
\* takes the next id of its table, committed or not
NextAutoinc(db, stmt) ==
    IF stmt.verb = "INSERT"
    THEN [autoinc EXCEPT ![db][stmt.table] = @ + 1]
    ELSE autoinc

\* the row an UPDATE or DELETE addresses is locked by the uncommitted
\* statement of another session; the statement waits for the lock
RowLocked(r, db, stmt) ==
    /\ stmt.verb \in {"UPDATE", "DELETE"}
    /\ \E o \in slots \ {r} :
          /\ sess[o].open
          /\ sess[o].db = db
          /\ sess[o].pending.verb \in {"UPDATE", "DELETE"}
          /\ sess[o].pending.table = stmt.table
          /\ sess[o].pending.id = stmt.id

SERVERS == {"postgresql", "mysql"}

\* the row every table "items" starts with
Row0 == [c \in DataColumns |->
            IF c = "name" THEN "a" ELSE IF c = "active" THEN "1"
            ELSE IF c = "deleted" THEN "0" ELSE NULL]

\* the state after construction of a process that serves with the slots of s
InitWith(s) ==
    /\ impl \in Impls
    /\ cfg \in [DbNames -> [type : {"mysql", "postgresql", "postgres"}, reachable : BOOLEAN]]
    /\ cfg["db1"].type = "mysql"
    /\ cfg["db2"].type # "mysql"
    /\ cfg["db2"].reachable
    /\ impl # "core" => cfg["db2"].type = "postgresql"
    /\ phase = "startup"
    /\ engines = {}
    /\ tables = [d \in DbNames |-> [t \in CatalogTables |->
                    [i \in (IF d = "db1" THEN {1} ELSE {}) |-> Row0]]]
    /\ autoinc = [d \in DbNames |-> [t \in RequestTables |->
                    IF d = "db1" /\ t \in CatalogTables THEN 2 ELSE 1]]
    /\ slots = s
    /\ req = [r \in slots |-> IdleReq]
    /\ sess = [r \in slots |-> NoSession]
    /\ outcome = [r \in slots |-> NoOutcome]
    /\ sent = [r \in slots |-> {}]
    /\ openSessions = 0
    /\ nreq = 0
    /\ last = NoLast

\* one request at a time
Init == InitWith({1})

\* APIBridge._get_db_connection: the engine, or the wrapped exception
APIBridge_get_db_connection(config) ==
    IF config.type \notin SERVERS THEN "Exception"
    ELSE IF ~config.reachable THEN "Exception"
    ELSE "engine"

\* APIBridge._setup_connections: the dict comprehension over db_configs; an
\* exception of one _get_db_connection leaves __init__ and no APIBridge exists
APIBridge_setup_connections ==
    /\ impl = "core"
    /\ phase = "startup"
    /\ IF \E name \in DbNames : APIBridge_get_db_connection(cfg[name]) = "Exception"
       THEN phase' = "failed" /\ engines' = {}
       ELSE phase' = "serving" /\ engines' = DbNames
    /\ UNCHANGED <<impl, cfg, tables, autoinc, slots, req, sess, outcome, sent,
                   openSessions, nreq, last>>

\* db.get_db_connection / bridge.get_db_connection: one mysql engine
get_db_connection(config) ==
    IF ~config.reachable THEN "Exception" ELSE "engine"

\* router.py: the engine handed to ApiBridgeRouter(engine) comes from
\* db.get_db_connection (example_app/main.py)
ApiBridgeRouter_init ==
    /\ impl = "router"
    /\ phase = "startup"
    /\ IF get_db_connection(cfg[DefaultDb]) = "Exception"
       THEN phase' = "failed" /\ engines' = {}
       ELSE phase' = "serving" /\ engines' = {DefaultDb}
    /\ UNCHANGED <<impl, cfg, tables, autoinc, slots, req, sess, outcome, sent,
                   openSessions, nreq, last>>

\* bridge.py: engine = get_db_connection(**DB_DETAILS) at import
bridge_import ==
    /\ impl = "bridge"
    /\ phase = "startup"
    /\ IF get_db_connection(cfg[DefaultDb]) = "Exception"
       THEN phase' = "failed" /\ engines' = {}
       ELSE phase' = "serving" /\ engines' = {DefaultDb}
    /\ UNCHANGED <<impl, cfg, tables, autoinc, slots, req, sess, outcome, sent,
                   openSessions, nreq, last>>

\* ------------------------------------------------- the catalog changes
\* No request is in flight (DDL waits for the metadata locks of open
\* transactions); the schema of a database the process serves changes under it.
Quiet == \A r \in slots : req[r].pc = "idle"
EmptyTable == [i \in {} |-> Row0]
\* the tables by which the catalogs differ from the ones the process started with
CatalogChanges ==
    Cardinality({dt \in DbNames \X RequestTables :
                    (dt[2] \in DOMAIN tables[dt[1]]) # (dt[2] \in CatalogTables)})

\* DROP TABLE t, issued by someone else while the process runs
DropTable ==
    /\ phase = "serving"
    /\ Quiet
    /\ CatalogChanges < MaxDdl
    /\ \E db \in engines, t \in RequestTables :
         /\ t \in DOMAIN tables[db]
         /\ tables' = [tables EXCEPT ![db] = [x \in DOMAIN @ \ {t} |-> @[x]]]
    /\ last' = NoLast
    /\ UNCHANGED <<impl, cfg, phase, engines, autoinc, slots, req, sess, outcome,
                   sent, openSessions, nreq>>

\* CREATE TABLE t (id ... AUTO_INCREMENT PRIMARY KEY, ...), issued by someone
\* else while the process runs: an empty table with the columns of Row0
CreateTable ==
    /\ phase = "serving"
    /\ Quiet
    /\ CatalogChanges < MaxDdl
    /\ \E db \in engines, t \in RequestTables :
         /\ t \notin DOMAIN tables[db]
         /\ tables' = [tables EXCEPT ![db] =
                          [x \in DOMAIN @ \cup {t} |-> IF x = t THEN EmptyTable ELSE @[x]]]
         /\ autoinc' = [autoinc EXCEPT ![db][t] = 1]
    /\ last' = NoLast
    /\ UNCHANGED <<impl, cfg, phase, engines, slots, req, sess, outcome,
                   sent, openSessions, nreq>>

\* ------------------------------------------------------- request plumbing
CanStart(r, variant) ==
    /\ impl = variant
    /\ phase = "serving"
    /\ req[r].pc = "idle"
    /\ nreq < MaxRequests

\* The request ends in the step that started it.  `stmts` are the statements
\* it sent, `leak` the sessions it opened and did not close.
EndAtOnce(r, rq, o, stmts, leak) ==
    /\ req' = [req EXCEPT ![r] = [rq EXCEPT !.pc = "done"]]
    /\ outcome' = [outcome EXCEPT ![r] = o]
    /\ sent' = [sent EXCEPT ![r] = stmts]
    /\ sess' = [sess EXCEPT ![r] = NoSession]
    /\ openSessions' = openSessions + leak
    /\ nreq' = nreq + 1
    /\ last' = IF rq.op \in ReadOps THEN last ELSE NoLast
    /\ UNCHANGED <<impl, cfg, phase, engines, tables, autoinc, slots>>

\* The request has executed its statement in an open session and waits
\* for its second round trip.
Executed(r, rq, session, stmts, pcNext) ==
    /\ req' = [req EXCEPT ![r] = [rq EXCEPT !.pc = pcNext]]
    /\ outcome' = outcome
    /\ sent' = [sent EXCEPT ![r] = stmts]
    /\ sess' = [sess EXCEPT ![r] = session]
    /\ openSessions' = openSessions + 1
    /\ nreq' = nreq + 1
    /\ UNCHANGED <<impl, cfg, phase, engines, tables, slots, last>>

\* The second step ends the request: committed contents become `tbls`, the
\* session is closed unless it leaks.
End(r, o, tbls, stmts, leak) ==
    /\ req' = [req EXCEPT ![r].pc = "done"]
    /\ outcome' = [outcome EXCEPT ![r] = o]
    /\ sent' = [sent EXCEPT ![r] = stmts]
    /\ sess' = [sess EXCEPT ![r] = NoSession]
    /\ openSessions' = openSessions - 1 + leak
    /\ tables' = tbls
    /\ last' = IF req[r].op = "Create" /\ o.kind = "Success"
               THEN [db |-> sess[r].db, table |-> sess[r].pending.table,
                     id |-> sess[r].pending.id, record |-> req[r].record]
               ELSE IF req[r].op \in ReadOps THEN last ELSE NoLast
    /\ UNCHANGED <<impl, cfg, phase, engines, autoinc, slots, nreq>>

\* the response is delivered and the slot takes the next request
Respond(r) ==
    /\ req[r].pc = "done"
    /\ req' = [req EXCEPT ![r] = IdleReq]
    /\ outcome' = [outcome EXCEPT ![r] = NoOutcome]
    /\ sent' = [sent EXCEPT ![r] = {}]
    /\ UNCHANGED <<impl, cfg, phase, engines, tables, autoinc, slots, sess,
                   openSessions, nreq, last>>

\* operational failure of a round trip (connection lost, deadlock, ...)
DbError == RawException("OperationalError", "DbError")
CommitError == RawException("OperationalError", "CommitError")

\* a rollback that lets the pending statement through
RolledBack_flushes(db, stmt) == Committed(db, stmt)

\* closing a session (or session.rollback()) discards the statement that
\* was executed and not committed: the committed contents stay as they are
RolledBack(db, stmt) == tables

\* AUTO_INCREMENT hands out ids up to MaxId
CanInsert(db, t) == (db \in DbNames /\ t \in DOMAIN tables[db]) => autoinc[db][t] <= MaxId

\* a soft delete that leaves the row active
SoftDeleteValues_active(guid, time) ==
    [k \in PayloadKeys |-> IF k = "deleted" THEN "1"
                           ELSE IF k = "deleted_by_guid" THEN guid
                           ELSE IF k = "deleted_at" THEN time ELSE Absent]

\* UPDATE ... SET active=0, deleted=1, deleted_by_guid=..., deleted_at=...
SoftDeleteValues(guid, time) ==
    [k \in PayloadKeys |-> IF k = "active" THEN "0" ELSE IF k = "deleted" THEN "1"
                           ELSE IF k = "deleted_by_guid" THEN guid
                           ELSE IF k = "deleted_at" THEN time ELSE Absent]

SoftDeleteBody(time, guid) == [NoBody EXCEPT !.deleted_at = time, !.deleted_by = guid]

\* total_pages without the extra page for the remainder
TotalPages_floor(total_records, limit) == total_records \div limit

\* total_pages of the pagination block
TotalPages(total_records, limit) ==
    (total_records \div limit) + (IF total_records % limit # 0 THEN 1 ELSE 0)

\* dict(zip(columns, row)) / dict(row): the row keyed by column name
RowDict(columns, row) == [c \in {columns[i] : i \in 1 .. Len(columns)} |->
                            row[CHOOSE i \in 1 .. Len(columns) : columns[i] = c]]

ListBody(rows, total_records, page, limit, offset) ==
    [NoBody EXCEPT !.data = [i \in 1 .. Len(rows) |-> RowDict(ColumnOrder, rows[i])],
                   !.total_records = total_records,
                   !.limit = limit,
                   !.skip = offset,
                   !.total_pages = TotalPages(total_records, limit),
                   !.current_page = page]

\* ===================================================== src/api_bridge/core.py
\* APIBridge._get_table_and_columns: the exception it raises, or NoOutcome
APIBridge_get_table_and_columns(db_name, table_name) ==
    IF db_name \notin engines THEN RawException("KeyError", "NoDb")
    ELSE IF table_name \notin DOMAIN tables[db_name]
    THEN HTTPException(400, "NoTable")
    ELSE NoOutcome

APIBridge_test_db_connection(r) ==
    /\ CanStart(r, "core")
    /\ \E db_name \in RequestDbNames, fault \in BOOLEAN :
         LET rq == Request("TestConnection", db_name, "", 0, NoValues, NULL, NULL, 0, 0)
         IN /\ EndAtOnce(r, rq,
                  IF db_name \notin engines THEN Wrap500(HTTPException(404, "NoDb"))
                  ELSE IF fault THEN Wrap500(DbError)
                  ELSE Success(NoBody),
                  {}, 0)
            /\ UNCHANGED autoinc

\* get_all_records up to the SELECT; _get_table_and_columns is outside the try
APIBridge_get_all_records(r) ==
    /\ CanStart(r, "core")
    /\ \E db_name \in RequestDbNames, table_name \in RequestTables,
          page \in 1 .. MaxPage, limit \in 1 .. MaxLimit, fault \in BOOLEAN :
         LET rq == Request("List", db_name, table_name, 0, NoValues, NULL, NULL, page, limit)
             resolved == APIBridge_get_table_and_columns(db_name, table_name)
             offset == (page - 1) * limit
             query == Stmt("SELECT", table_name, 0, NoValues)
         IN /\ IF resolved # NoOutcome
               THEN EndAtOnce(r, rq, resolved, {}, 0)
               ELSE IF fault
               THEN EndAtOnce(r, rq, Wrap500(DbError), {query}, 0)
               ELSE Executed(r, rq,
                       SelectSession(db_name, table_name, limit, offset),
                       {query}, "selected")
            /\ UNCHANGED autoinc

\* get_all_records from the COUNT to the response
APIBridge_get_all_records_count(r) ==
    /\ impl = "core"
    /\ req[r].pc = "selected"
    /\ \E fault \in BOOLEAN :
         LET count_query == Stmt("COUNT", req[r].table, 0, NoValues)
             total_records == CountRows(ReadView(sess[r], req[r].table))
             offset == (req[r].page - 1) * req[r].limit
         IN IF fault
            THEN End(r, Wrap500(DbError), tables, sent[r] \cup {count_query}, 0)
            ELSE End(r, Success(ListBody(sess[r].rows, total_records,
                                         req[r].page, req[r].limit, offset)),
                     tables, sent[r] \cup {count_query}, 0)

\* The lines the five mutating handlers of APIBridge share up to
\* session.execute(stmt): resolve inside the try, open the session, build the
\* statement (a key that is no column of the reflected table fails to
\* compile), execute.
APIBridge_execute(r, rq, stmt, fault) ==
    LET resolved == APIBridge_get_table_and_columns(rq.db, rq.table)
    IN IF resolved # NoOutcome
       THEN EndAtOnce(r, rq, Wrap500(resolved), {}, 0) /\ UNCHANGED autoinc
       ELSE IF ~(Keys(stmt.values) \subseteq DataColumns)
       THEN EndAtOnce(r, rq, Wrap500(RawException("CompileError", "UnknownColumn")), {}, 0)
            /\ UNCHANGED autoinc
       ELSE IF fault
       THEN EndAtOnce(r, rq, Wrap500(DbError), {stmt}, 0) /\ UNCHANGED autoinc
       ELSE LET res == DbExecute(rq.db, stmt)
                id == IF stmt.verb = "INSERT" THEN autoinc[rq.db][rq.table] ELSE stmt.id
            IN /\ ~RowLocked(r, rq.db, stmt)
               /\ Executed(r, [rq EXCEPT !.rowcount = res.rowcount],
                     OpenSession(rq.db, [stmt EXCEPT !.id = id], <<>>),
                     {stmt}, "executed")
               /\ autoinc' = NextAutoinc(rq.db, stmt)

\* session.commit() and what follows it in a handler of APIBridge: `after`
\* is the handler's result once the commit went through; leaving the `with`
\* block closes the session on every path.
APIBridge_commit(r, op, fault, after) ==
    /\ impl = "core"
    /\ req[r].pc = "executed"
    /\ req[r].op = op
    /\ IF fault
       THEN End(r, Wrap500(CommitError), RolledBack(sess[r].db, sess[r].pending), sent[r], 0)
       ELSE End(r, after, Committed(sess[r].db, sess[r].pending), sent[r], 0)

APIBridge_create_record(r) ==
    /\ CanStart(r, "core")
    /\ \E db_name \in RequestDbNames, table_name \in RequestTables,
          record \in Payloads, fault \in BOOLEAN :
         /\ CanInsert(db_name, table_name)
         /\ APIBridge_execute(r,
               Request("Create", db_name, table_name, 0, record, NULL, NULL, 0, 0),
               Stmt("INSERT", table_name, 0, record), fault)

APIBridge_create_record_commit(r) ==
    \E fault \in BOOLEAN : APIBridge_commit(r, "Create", fault, Success(NoBody))

APIBridge_update_record(r) ==
    /\ CanStart(r, "core")
    /\ \E db_name \in RequestDbNames, table_name \in RequestTables,
          record_id \in Ids, record \in Payloads, fault \in BOOLEAN :
         APIBridge_execute(r,
            Request("Update", db_name, table_name, record_id, record, NULL, NULL, 0, 0),
            Stmt("UPDATE", table_name, record_id, record), fault)

\* update_record after the commit: no rowcount check, the success message
\* whatever the UPDATE matched
APIBridge_update_record_after(rowcount) == Success(NoBody)

APIBridge_update_record_commit(r) ==
    \E fault \in BOOLEAN :
        APIBridge_commit(r, "Update", fault, APIBridge_update_record_after(req[r].rowcount))

APIBridge_soft_delete_record(r) ==
    /\ CanStart(r, "core")
    /\ \E db_name \in RequestDbNames, table_name \in RequestTables,
          record_id \in Ids, deleted_by_guid \in Guids, current_time \in Times,
          fault \in BOOLEAN :
         APIBridge_execute(r,
            Request("SoftDelete", db_name, table_name, record_id, NoValues,
                    deleted_by_guid, current_time, 0, 0),
            Stmt("UPDATE", table_name, record_id,
                 SoftDeleteValues(deleted_by_guid, current_time)), fault)

\* the HTTPException(404) is raised inside the try and caught by
\* `except Exception`
APIBridge_soft_delete_record_commit(r) ==
    \E fault \in BOOLEAN :
        APIBridge_commit(r, "SoftDelete", fault,
            IF req[r].rowcount = 0
            THEN Wrap500(HTTPException(404, "NoRecord"))
            ELSE Success(SoftDeleteBody(req[r].time, req[r].guid)))

APIBridge_delete_record(r) ==
    /\ CanStart(r, "core")
    /\ \E db_name \in RequestDbNames, table_name \in RequestTables,
          record_id \in Ids, fault \in BOOLEAN :
         APIBridge_execute(r,
            Request("HardDelete", db_name, table_name, record_id, NoValues, NULL, NULL, 0, 0),
            Stmt("DELETE", table_name, record_id, NoValues), fault)

APIBridge_delete_record_commit(r) ==
    \E fault \in BOOLEAN :
        APIBridge_commit(r, "HardDelete", fault,
            IF req[r].rowcount = 0
            THEN Wrap500(HTTPException(404, "NoRecord"))
            ELSE Success(NoBody))

APIBridge_patch_record(r) ==
    /\ CanStart(r, "core")
    /\ \E db_name \in RequestDbNames, table_name \in RequestTables,
          record_id \in Ids, record \in Payloads, fault \in BOOLEAN :
         APIBridge_execute(r,
            Request("Patch", db_name, table_name, record_id, record, NULL, NULL, 0, 0),
            Stmt("UPDATE", table_name, record_id, record), fault)

\* patch_record after the commit: the 404 of the rowcount check is raised
\* inside the try and comes out of `except Exception` as a 500
APIBridge_patch_record_after(rowcount) ==
    IF rowcount = 0 THEN Wrap500(HTTPException(404, "NoRecord")) ELSE Success(NoBody)

APIBridge_patch_record_commit(r) ==
    \E fault \in BOOLEAN :
        APIBridge_commit(r, "Patch", fault, APIBridge_patch_record_after(req[r].rowcount))

\* ============================================================ src/router.py
\* The lines the mutating handlers of ApiBridgeRouter share up to
\* session.execute(query, params): the session is opened before the try, the
\* statement text is built from the table name and the record's keys and sent
\* as it is; on an exception: rollback, HTTPException(500), and the finally
\* closes the session.
ApiBridgeRouter_execute(r, rq, query, fault) ==
    LET res == DbExecute(DefaultDb, query)
    IN IF fault
       THEN EndAtOnce(r, rq, Wrap500(DbError), {query}, 0) /\ UNCHANGED autoinc
       ELSE IF ~res.ok
       THEN EndAtOnce(r, rq, Wrap500(RawException("ProgrammingError", res.cause)),
                      {query}, 0)
            /\ UNCHANGED autoinc
       ELSE LET id == IF query.verb = "INSERT" THEN autoinc[DefaultDb][rq.table] ELSE query.id
            IN /\ ~RowLocked(r, DefaultDb, query)
               /\ Executed(r, [rq EXCEPT !.rowcount = res.rowcount],
                     OpenSession(DefaultDb, [query EXCEPT !.id = id], <<>>),
                     {query}, "executed")
               /\ autoinc' = NextAutoinc(DefaultDb, query)

\* session.commit() and what follows it in a handler of ApiBridgeRouter:
\* `after` is the handler's result once the commit went through (an
\* HTTPException raised there is re-raised as it is); rollback on an
\* exception, close in the finally.
ApiBridgeRouter_commit(r, op, fault, after) ==
    /\ impl = "router"
    /\ req[r].pc = "executed"
    /\ req[r].op = op
    /\ IF fault
       THEN End(r, Wrap500(CommitError), RolledBack(sess[r].db, sess[r].pending), sent[r], 0)
       ELSE End(r, after, Committed(sess[r].db, sess[r].pending), sent[r], 0)

ApiBridgeRouter_test_db_connection(r) ==
    /\ CanStart(r, "router")
    /\ \E fault \in BOOLEAN :
         /\ EndAtOnce(r, Request("TestConnection", DefaultDb, "", 0, NoValues, NULL, NULL, 0, 0),
                      IF fault THEN Wrap500(DbError) ELSE Success(NoBody), {}, 0)
         /\ UNCHANGED autoinc

\* get_all_records up to the SELECT
ApiBridgeRouter_get_all_records(r) ==
    /\ CanStart(r, "router")
    /\ \E table_name \in RequestTables, page \in 1 .. MaxPage, limit \in 1 .. MaxLimit,
          fault \in BOOLEAN :
         LET rq == Request("List", DefaultDb, table_name, 0, NoValues, NULL, NULL, page, limit)
             offset == (page - 1) * limit
             query == Stmt("SELECT", table_name, 0, NoValues)
             res == DbExecute(DefaultDb, query)
         IN /\ IF fault
               THEN EndAtOnce(r, rq, Wrap500(DbError), {query}, 0)
               ELSE IF ~res.ok
               THEN EndAtOnce(r, rq, Wrap500(RawException("ProgrammingError", res.cause)),
                              {query}, 0)
               ELSE Executed(r, rq,
                       SelectSession(DefaultDb, table_name, limit, offset),
                       {query}, "selected")
            /\ UNCHANGED autoinc

\* get_all_records from the COUNT to the response; the finally closes
ApiBridgeRouter_get_all_records_count(r) ==
    /\ impl = "router"
    /\ req[r].pc = "selected"
    /\ \E fault \in BOOLEAN :
         LET count_query == Stmt("COUNT", req[r].table, 0, NoValues)
             total_records == CountRows(ReadView(sess[r], req[r].table))
             offset == (req[r].page - 1) * req[r].limit
         IN IF fault
            THEN End(r, Wrap500(DbError), tables, sent[r] \cup {count_query}, 0)
            ELSE End(r, Success(ListBody(sess[r].rows, total_records,
                                         req[r].page, req[r].limit, offset)),
                     tables, sent[r] \cup {count_query}, 0)

ApiBridgeRouter_create_record(r) ==
    /\ CanStart(r, "router")
    /\ \E table_name \in RequestTables, record \in Payloads, fault \in BOOLEAN :
         /\ CanInsert(DefaultDb, table_name)
         /\ ApiBridgeRouter_execute(r,
               Request("Create", DefaultDb, table_name, 0, record, NULL, NULL, 0, 0),
               Stmt("INSERT", table_name, 0, record), fault)

ApiBridgeRouter_create_record_commit(r) ==
    \E fault \in BOOLEAN : ApiBridgeRouter_commit(r, "Create", fault, Success(NoBody))

ApiBridgeRouter_update_record(r) ==
    /\ CanStart(r, "router")
    /\ \E table_name \in RequestTables, record_id \in Ids, record \in Payloads,
          fault \in BOOLEAN :
         ApiBridgeRouter_execute(r,
            Request("Update", DefaultDb, table_name, record_id, record, NULL, NULL, 0, 0),
            Stmt("UPDATE", table_name, record_id, record), fault)

\* update_record after the commit: the rowcount check and its 404
ApiBridgeRouter_update_record_after(rowcount) ==
    IF rowcount = 0 THEN HTTPException(404, "NoRecord") ELSE Success(NoBody)

ApiBridgeRouter_update_record_commit(r) ==
    \E fault \in BOOLEAN :
        ApiBridgeRouter_commit(r, "Update", fault,
            ApiBridgeRouter_update_record_after(req[r].rowcount))

ApiBridgeRouter_soft_delete_record(r) ==
    /\ CanStart(r, "router")
    /\ \E table_name \in RequestTables, record_id \in Ids, deleted_by_guid \in Guids,
          current_time \in Times, fault \in BOOLEAN :
         ApiBridgeRouter_execute(r,
            Request("SoftDelete", DefaultDb, table_name, record_id, NoValues,
                    deleted_by_guid, current_time, 0, 0),
            Stmt("UPDATE", table_name, record_id,
                 SoftDeleteValues(deleted_by_guid, current_time)), fault)

ApiBridgeRouter_soft_delete_record_commit(r) ==
    \E fault \in BOOLEAN :
        ApiBridgeRouter_commit(r, "SoftDelete", fault,
            IF req[r].rowcount = 0
            THEN HTTPException(404, "NoRecord")
            ELSE Success(SoftDeleteBody(req[r].time, req[r].guid)))

ApiBridgeRouter_delete_record(r) ==
    /\ CanStart(r, "router")
    /\ \E table_name \in RequestTables, record_id \in Ids, fault \in BOOLEAN :
         ApiBridgeRouter_execute(r,
            Request("HardDelete", DefaultDb, table_name, record_id, NoValues, NULL, NULL, 0, 0),
            Stmt("DELETE", table_name, record_id, NoValues), fault)

ApiBridgeRouter_delete_record_commit(r) ==
    \E fault \in BOOLEAN :
        ApiBridgeRouter_commit(r, "HardDelete", fault,
            IF req[r].rowcount = 0
            THEN HTTPException(404, "NoRecord")
            ELSE Success(NoBody))

ApiBridgeRouter_patch_record(r) ==
    /\ CanStart(r, "router")
    /\ \E table_name \in RequestTables, record_id \in Ids, record \in Payloads,
          fault \in BOOLEAN :
         ApiBridgeRouter_execute(r,
            Request("Patch", DefaultDb, table_name, record_id, record, NULL, NULL, 0, 0),
            Stmt("UPDATE", table_name, record_id, record), fault)

\* patch_record after the commit: the rowcount check and its 404
ApiBridgeRouter_patch_record_after(rowcount) ==
    IF rowcount = 0 THEN HTTPException(404, "NoRecord") ELSE Success(NoBody)

ApiBridgeRouter_patch_record_commit(r) ==
    \E fault \in BOOLEAN :
        ApiBridgeRouter_commit(r, "Patch", fault,
            ApiBridgeRouter_patch_record_after(req[r].rowcount))

\* ============================================================ src/bridge.py
\* The lines the mutating handlers of bridge.py share up to session.execute:
\* as in router.py (rollback, HTTPException(500), close in the finally).
bridge_execute(r, rq, query, fault) ==
    LET res == DbExecute(DefaultDb, query)
    IN IF fault
       THEN EndAtOnce(r, rq, Wrap500(DbError), {query}, 0) /\ UNCHANGED autoinc
       ELSE IF ~res.ok
       THEN EndAtOnce(r, rq, Wrap500(RawException("ProgrammingError", res.cause)),
                      {query}, 0)
            /\ UNCHANGED autoinc
       ELSE LET id == IF query.verb = "INSERT" THEN autoinc[DefaultDb][rq.table] ELSE query.id
            IN /\ ~RowLocked(r, DefaultDb, query)
               /\ Executed(r, [rq EXCEPT !.rowcount = res.rowcount],
                     OpenSession(DefaultDb, [query EXCEPT !.id = id], <<>>),
                     {query}, "executed")
               /\ autoinc' = NextAutoinc(DefaultDb, query)

\* session.commit() and what follows it in a handler of bridge.py: the only
\* except clause is `except Exception`, which also catches an HTTPException
\* raised after the commit; rollback there, close in the finally.
bridge_commit(r, op, fault, after) ==
    /\ impl = "bridge"
    /\ req[r].pc = "executed"
    /\ req[r].op = op
    /\ IF fault
       THEN End(r, Wrap500(CommitError), RolledBack(sess[r].db, sess[r].pending), sent[r], 0)
       ELSE End(r, after, Committed(sess[r].db, sess[r].pending), sent[r], 0)

\* test_db_connection builds a new engine with get_db_connection
bridge_test_db_connection(r) ==
    /\ CanStart(r, "bridge")
    /\ \E fault \in BOOLEAN :
         /\ EndAtOnce(r, Request("TestConnection", DefaultDb, "", 0, NoValues, NULL, NULL, 0, 0),
                      IF fault \/ get_db_connection(cfg[DefaultDb]) = "Exception"
                      THEN Wrap500(DbError) ELSE Success(NoBody), {}, 0)
         /\ UNCHANGED autoinc

\* get_all_records up to the SELECT: session = Session() is never closed,
\* there is no finally
bridge_get_all_records(r) ==
    /\ CanStart(r, "bridge")
    /\ \E table_name \in RequestTables, page \in 1 .. MaxPage, limit \in 1 .. MaxLimit,
          fault \in BOOLEAN :
         LET rq == Request("List", DefaultDb, table_name, 0, NoValues, NULL, NULL, page, limit)
             offset == (page - 1) * limit
             query == Stmt("SELECT", table_name, 0, NoValues)
             res == DbExecute(DefaultDb, query)
         IN /\ IF fault
               THEN EndAtOnce(r, rq, Wrap500(DbError), {query}, 1)
               ELSE IF ~res.ok
               THEN EndAtOnce(r, rq, Wrap500(RawException("ProgrammingError", res.cause)),
                              {query}, 1)
               ELSE Executed(r, rq,
                       SelectSession(DefaultDb, table_name, limit, offset),
                       {query}, "selected")
            /\ UNCHANGED autoinc

\* get_all_records from the COUNT to the response; the session stays open
bridge_get_all_records_count(r) ==
    /\ impl = "bridge"
    /\ req[r].pc = "selected"
    /\ \E fault \in BOOLEAN :
         LET count_query == Stmt("COUNT", req[r].table, 0, NoValues)
             total_records == CountRows(ReadView(sess[r], req[r].table))
             offset == (req[r].page - 1) * req[r].limit
         IN IF fault
            THEN End(r, Wrap500(DbError), tables, sent[r] \cup {count_query}, 1)
            ELSE End(r, Success(ListBody(sess[r].rows, total_records,
                                         req[r].page, req[r].limit, offset)),
                     tables, sent[r] \cup {count_query}, 1)

bridge_create_record(r) ==
    /\ CanStart(r, "bridge")
    /\ \E table_name \in RequestTables, record \in Payloads, fault \in BOOLEAN :
         /\ CanInsert(DefaultDb, table_name)
         /\ bridge_execute(r,
               Request("Create", DefaultDb, table_name, 0, record, NULL, NULL, 0, 0),
               Stmt("INSERT", table_name, 0, record), fault)

bridge_create_record_commit(r) ==
    \E fault \in BOOLEAN : bridge_commit(r, "Create", fault, Success(NoBody))

bridge_update_record(r) ==
    /\ CanStart(r, "bridge")
    /\ \E table_name \in RequestTables, record_id \in Ids, record \in Payloads,
          fault \in BOOLEAN :
         bridge_execute(r,
            Request("Update", DefaultDb, table_name, record_id, record, NULL, NULL, 0, 0),
            Stmt("UPDATE", table_name, record_id, record), fault)

\* update_record after the commit: no rowcount check
bridge_update_record_after(rowcount) == Success(NoBody)

bridge_update_record_commit(r) ==
    \E fault \in BOOLEAN :
        bridge_commit(r, "Update", fault, bridge_update_record_after(req[r].rowcount))

bridge_soft_delete_record(r) ==
    /\ CanStart(r, "bridge")
    /\ \E table_name \in RequestTables, record_id \in Ids, deleted_by_guid \in Guids,
          current_time \in Times, fault \in BOOLEAN :
         bridge_execute(r,
            Request("SoftDelete", DefaultDb, table_name, record_id, NoValues,
                    deleted_by_guid, current_time, 0, 0),
            Stmt("UPDATE", table_name, record_id,
                 SoftDeleteValues(deleted_by_guid, current_time)), fault)

bridge_soft_delete_record_commit(r) ==
    \E fault \in BOOLEAN :
        bridge_commit(r, "SoftDelete", fault,
            IF req[r].rowcount = 0
            THEN Wrap500(HTTPException(404, "NoRecord"))
            ELSE Success(SoftDeleteBody(req[r].time, req[r].guid)))

bridge_delete_record(r) ==
    /\ CanStart(r, "bridge")
    /\ \E table_name \in RequestTables, record_id \in Ids, fault \in BOOLEAN :
         bridge_execute(r,
            Request("HardDelete", DefaultDb, table_name, record_id, NoValues, NULL, NULL, 0, 0),
            Stmt("DELETE", table_name, record_id, NoValues), fault)

\* no rowcount check
bridge_delete_record_commit(r) ==
    \E fault \in BOOLEAN : bridge_commit(r, "HardDelete", fault, Success(NoBody))

bridge_patch_record(r) ==
    /\ CanStart(r, "bridge")
    /\ \E table_name \in RequestTables, record_id \in Ids, record \in Payloads,
          fault \in BOOLEAN :
         bridge_execute(r,
            Request("Patch", DefaultDb, table_name, record_id, record, NULL, NULL, 0, 0),
            Stmt("UPDATE", table_name, record_id, record), fault)

\* patch_record after the commit: the 404 of the rowcount check comes out
\* of `except Exception` as a 500
bridge_patch_record_after(rowcount) ==
    IF rowcount = 0 THEN Wrap500(HTTPException(404, "NoRecord")) ELSE Success(NoBody)

bridge_patch_record_commit(r) ==
    \E fault \in BOOLEAN :
        bridge_commit(r, "Patch", fault, bridge_patch_record_after(req[r].rowcount))

Next ==
    \/ DropTable
    \/ CreateTable
    \/ APIBridge_setup_connections
    \/ ApiBridgeRouter_init
    \/ bridge_import
    \/ \E r \in slots : APIBridge_test_db_connection(r)
    \/ \E r \in slots : APIBridge_get_all_records(r)
    \/ \E r \in slots : APIBridge_get_all_records_count(r)
    \/ \E r \in slots : APIBridge_create_record(r)
    \/ \E r \in slots : APIBridge_create_record_commit(r)
    \/ \E r \in slots : APIBridge_update_record(r)
    \/ \E r \in slots : APIBridge_update_record_commit(r)
    \/ \E r \in slots : APIBridge_soft_delete_record(r)
    \/ \E r \in slots : APIBridge_soft_delete_record_commit(r)
    \/ \E r \in slots : APIBridge_delete_record(r)
    \/ \E r \in slots : APIBridge_delete_record_commit(r)
    \/ \E r \in slots : APIBridge_patch_record(r)
    \/ \E r \in slots : APIBridge_patch_record_commit(r)
    \/ \E r \in slots : ApiBridgeRouter_test_db_connection(r)
    \/ \E r \in slots : ApiBridgeRouter_get_all_records(r)
    \/ \E r \in slots : ApiBridgeRouter_get_all_records_count(r)
    \/ \E r \in slots : ApiBridgeRouter_create_record(r)
    \/ \E r \in slots : ApiBridgeRouter_create_record_commit(r)
    \/ \E r \in slots : ApiBridgeRouter_update_record(r)
    \/ \E r \in slots : ApiBridgeRouter_update_record_commit(r)
    \/ \E r \in slots : ApiBridgeRouter_soft_delete_record(r)
    \/ \E r \in slots : ApiBridgeRouter_soft_delete_record_commit(r)
    \/ \E r \in slots : ApiBridgeRouter_delete_record(r)
    \/ \E r \in slots : ApiBridgeRouter_delete_record_commit(r)
    \/ \E r \in slots : ApiBridgeRouter_patch_record(r)
    \/ \E r \in slots : ApiBridgeRouter_patch_record_commit(r)
    \/ \E r \in slots : bridge_test_db_connection(r)
    \/ \E r \in slots : bridge_get_all_records(r)
    \/ \E r \in slots : bridge_get_all_records_count(r)
    \/ \E r \in slots : bridge_create_record(r)
    \/ \E r \in slots : bridge_create_record_commit(r)
    \/ \E r \in slots : bridge_update_record(r)
    \/ \E r \in slots : bridge_update_record_commit(r)
    \/ \E r \in slots : bridge_soft_delete_record(r)
    \/ \E r \in slots : bridge_soft_delete_record_commit(r)
    \/ \E r \in slots : bridge_delete_record(r)
    \/ \E r \in slots : bridge_delete_record_commit(r)
    \/ \E r \in slots : bridge_patch_record(r)
    \/ \E r \in slots : bridge_patch_record_commit(r)
    \/ \E r \in slots : Respond(r)

Spec == Init /\ [][Next]_vars

\* ------------------------------------------------------ concurrent requests
\* Two requests at a time (FastAPI runs the synchronous handlers in a thread
\* pool): Create, HardDelete and List of each variant, interleaved at their
\* database round trips.
InitConc == InitWith({1, 2})

NextConc ==
    \/ APIBridge_setup_connections
    \/ ApiBridgeRouter_init
    \/ bridge_import
    \/ \E r \in slots : APIBridge_get_all_records(r)
    \/ \E r \in slots : APIBridge_get_all_records_count(r)
    \/ \E r \in slots : APIBridge_create_record(r)
    \/ \E r \in slots : APIBridge_create_record_commit(r)
    \/ \E r \in slots : APIBridge_delete_record(r)
    \/ \E r \in slots : APIBridge_delete_record_commit(r)
    \/ \E r \in slots : ApiBridgeRouter_get_all_records(r)
    \/ \E r \in slots : ApiBridgeRouter_get_all_records_count(r)
    \/ \E r \in slots : ApiBridgeRouter_create_record(r)
    \/ \E r \in slots : ApiBridgeRouter_create_record_commit(r)
    \/ \E r \in slots : ApiBridgeRouter_delete_record(r)
    \/ \E r \in slots : ApiBridgeRouter_delete_record_commit(r)
    \/ \E r \in slots : bridge_get_all_records(r)
    \/ \E r \in slots : bridge_get_all_records_count(r)
    \/ \E r \in slots : bridge_create_record(r)
    \/ \E r \in slots : bridge_create_record_commit(r)
    \/ \E r \in slots : bridge_delete_record(r)
    \/ \E r \in slots : bridge_delete_record_commit(r)
    \/ \E r \in slots : Respond(r)

SpecConc == InitConc /\ [][NextConc]_vars

\* ================================================================== claims
Done(r) == req[r].pc = "done"
\* the step ends the request of slot r
Ends(r) == req[r].pc # "done" /\ req'[r].pc = "done"
Registered(db) == db \in engines
InCatalog(db, t) == db \in DbNames /\ t \in DOMAIN tables[db]

IsNotFoundError(o) == o.kind = "HTTPException" /\ o.status = 404
IsClientError(o) == o.kind = "HTTPException" /\ o.status >= 400 /\ o.status < 500
IsServerError(o) == o.kind = "HTTPException" /\ o.status >= 500
IsUniform(o) == o.kind \in {"Success", "HTTPException"}
\* the round trip itself failed (connection lost, ...), whatever was asked
OperationalFailure(o) == o.cause \in {"DbError", "CommitError"}

\* C1: for every operation, a request whose db_name is not a registered
\* logical database ends in NotFoundError (HTTP 404), never in a server error
\* and never in an unwrapped exception.
C1_UnknownDbIsNotFound ==
    \A r \in slots :
        (Done(r) /\ ~Registered(req[r].db)) => IsNotFoundError(outcome[r])

\* C2: an Update (PUT) whose statement matched no row ends in NotFoundError
\* (404); it never answers with the success message.
C2_UpdateAbsentIsNotFound ==
    \A r \in slots :
        (Done(r) /\ req[r].op = "Update" /\ req[r].rowcount = 0
            /\ ~OperationalFailure(outcome[r]))
        => IsNotFoundError(outcome[r])

\* C3: a Patch or SoftDelete whose statement matched no row ends in
\* NotFoundError with status 404: the 404 raised after the rowcount check
\* reaches the caller as a 404, not as a 500.
C3_PatchSoftDeleteAbsentIs404 ==
    \A r \in slots :
        (Done(r) /\ req[r].op \in {"Patch", "SoftDelete"} /\ req[r].rowcount = 0
            /\ ~OperationalFailure(outcome[r]))
        => IsNotFoundError(outcome[r])

\* C4: HardDelete is idempotent on an absent record: a HardDelete of an id
\* that matches no row ends in NotFoundError (404), does not report success
\* and leaves the tables as they were.  Stated of every such call, which is
\* the claim about two successive calls: the first leaves the id absent, so
\* the second is again a call on an absent id.
C4_HardDeleteAbsentIdempotent ==
    [][\A r \in slots :
          (Ends(r) /\ req'[r].op = "HardDelete" /\ req'[r].rowcount = 0
              /\ ~OperationalFailure(outcome'[r]))
          => (IsNotFoundError(outcome'[r]) /\ tables' = tables)]_vars

\* C5: for every data-path operation on a registered database, a table name
\* that is not in the live catalog ends the request in SchemaError with a
\* client-error status (400/404), and no statement naming that table is ever
\* sent to the database.
C5_TableCheckedBeforeStatement ==
    \A r \in slots :
        /\ \A s \in sent[r] : InCatalog(req[r].db, s.table)
        /\ (Done(r) /\ req[r].op \in DataOps /\ Registered(req[r].db)
               /\ ~InCatalog(req[r].db, req[r].table))
           => IsClientError(outcome[r])

\* C6: a Create, Update or Patch whose payload has a key that is no column of
\* the (existing) target table ends in UnknownColumnError, a client error,
\* and sends no statement to the database.
C6_UnknownColumnRejected ==
    \A r \in slots :
        (Done(r) /\ req[r].op \in {"Create", "Update", "Patch"}
            /\ Registered(req[r].db) /\ InCatalog(req[r].db, req[r].table)
            /\ ~(Keys(req[r].record) \subseteq DataColumns))
        => (IsClientError(outcome[r]) /\ sent[r] = {})

\* C7: a mutating request that ends in Failed leaves the committed contents
\* of every table as they were when it started: its first step (up to
\* session.execute) never changes them, and the step that ends it changes
\* them only when it ends in Success.
C7_FailedLeavesTablesUnchanged ==
    [][\A r \in slots :
          /\ (req[r].pc = "idle" /\ req'[r].pc = "executed") => tables' = tables
          /\ (Ends(r) /\ req'[r].op \in MutatingOps /\ outcome'[r].kind # "Success")
             => tables' = tables]_vars

\* C7 witness: a mutating request whose statement matched a row failed at the
\* commit, with the statement still pending in its session.
C7_Witness ==
    \E r \in slots :
        /\ Done(r)
        /\ req[r].op \in MutatingOps
        /\ req[r].rowcount = 1
        /\ IsServerError(outcome[r])
        /\ outcome[r].cause = "CommitError"

\* C8: whenever no request is in flight, no session is open: every session
\* checked out for a request was closed on the path the request took.
C8_NoOpenSessionWhenQuiet ==
    (\A r \in slots : req[r].pc \in {"idle", "done"}) => openSessions = 0

\* C9: once startup is over, every configured database whose own connection
\* check succeeds is registered and the process serves requests, whatever
\* happened to the other configured databases.
C9_PartialStartup ==
    (impl = "core" /\ phase # "startup")
    => \A name \in DbNames :
          APIBridge_get_db_connection(cfg[name]) = "engine"
          => (name \in engines /\ phase = "serving")

\* C10: every failing request ends with a uniform {status, detail} response;
\* no raw internal exception leaves a handler.
C10_NoRawException ==
    \A r \in slots : Done(r) => IsUniform(outcome[r])

\* C11: for page >= 1 and limit >= 1 the pagination block of a List answer
\* has skip = (page-1)*limit, current_page = page, limit = limit and
\* total_pages = ceil(total_records/limit), the least n with
\* n*limit >= total_records (25/10 gives 3, 20/10 gives 2, 0 records give 0).
C11_Pagination ==
    /\ TotalPages(25, 10) = 3
    /\ TotalPages(20, 10) = 2
    /\ TotalPages(0, 10) = 0
    /\ \A r \in slots :
          (Done(r) /\ req[r].op = "List" /\ outcome[r].kind = "Success")
          => LET b == outcome[r].body
             IN /\ b.skip = (req[r].page - 1) * req[r].limit
                /\ b.current_page = req[r].page
                /\ b.limit = req[r].limit
                /\ b.total_pages >= 0
                /\ b.total_pages * b.limit >= b.total_records
                /\ (b.total_pages - 1) * b.limit < b.total_records

\* C11 witness: a List of page 2 answered for a table whose row count is no
\* multiple of the limit.
C11_Witness ==
    \E r \in slots :
        /\ Done(r) /\ req[r].op = "List" /\ outcome[r].kind = "Success"
        /\ req[r].page = 2
        /\ outcome[r].body.total_records % req[r].limit # 0

\* C12: a SoftDelete of an existing record id by actor g sets the row's
\* active=0, deleted=1, deleted_by_guid=g and deleted_at to the request's
\* timestamp, answers Success with the same g and the same timestamp, and
\* keeps the row (the table has the same ids as before); a HardDelete of a
\* row that was soft-deleted succeeds and removes it.
C12_SoftDeleteMarksRow ==
    [][\A r \in slots :
          LET q == req'[r]
              o == outcome'[r]
          IN /\ (Ends(r) /\ q.op = "SoftDelete" /\ q.rowcount = 1
                    /\ ~OperationalFailure(o))
                => /\ o.kind = "Success"
                   /\ o.body.deleted_by = q.guid
                   /\ o.body.deleted_at = q.time
                   /\ DOMAIN tables'[q.db][q.table] = DOMAIN tables[q.db][q.table]
                   /\ q.id \in DOMAIN tables'[q.db][q.table]
                   /\ tables'[q.db][q.table][q.id] =
                         [tables[q.db][q.table][q.id] EXCEPT
                             !["active"] = "0", !["deleted"] = "1",
                             !["deleted_by_guid"] = q.guid, !["deleted_at"] = q.time]
             /\ (Ends(r) /\ q.op = "HardDelete" /\ q.rowcount = 1
                    /\ ~OperationalFailure(o)
                    /\ tables[q.db][q.table][q.id]["deleted"] = "1")
                => /\ o.kind = "Success"
                   /\ q.id \notin DOMAIN tables'[q.db][q.table]]_vars

\* C12 witness: a SoftDelete answered Success and the row is still there,
\* marked deleted by the request's actor at the request's timestamp.
C12_Witness ==
    \E r \in slots :
        /\ Done(r) /\ req[r].op = "SoftDelete" /\ outcome[r].kind = "Success"
        /\ req[r].id \in DOMAIN tables[req[r].db][req[r].table]
        /\ tables[req[r].db][req[r].table][req[r].id]["deleted"] = "1"
        /\ tables[req[r].db][req[r].table][req[r].id]["deleted_at"] = req[r].time
        /\ outcome[r].body.deleted_by = req[r].guid


\* the List of slot r is answered and follows a successful Create on the
\* table it lists, with no other write in between
ListsAfterCreate(r) ==
    /\ Done(r) /\ req[r].op = "List" /\ outcome[r].kind = "Success"
    /\ last # NoLast
    /\ last.db = req[r].db /\ last.table = req[r].table

\* the answer's data holds the created record: its id and the fields of P
HoldsCreated(r) ==
    \E i \in 1 .. Len(outcome[r].body.data) :
        /\ outcome[r].body.data[i]["id"] = last.id
        /\ \A k \in Keys(last.record) : outcome[r].body.data[i][k] = last.record[k]

\* C13 (as stated): after a successful Create with payload P, a List of
\* page 1 with any limit >= 1 returns data that contains a record whose
\* fields equal P, whatever rows the table already held.
C13_RoundTripAnyLimit ==
    \A r \in slots :
        (ListsAfterCreate(r) /\ req[r].page = 1) => HoldsCreated(r)

\* C13 (amended): after a successful Create with payload P, a List of page 1
\* whose limit is at least the number of rows of the table returns data that
\* contains a record whose fields equal P.
C13_RoundTripWithinLimit ==
    \A r \in slots :
        (/\ ListsAfterCreate(r) /\ req[r].page = 1
         /\ req[r].limit >= Cardinality(DOMAIN tables[req[r].db][req[r].table]))
        => HoldsCreated(r)

\* C13 witness: the table held a row before the Create, and the List of
\* page 1 that follows returns both rows, the created one among them.
C13_Witness ==
    \E r \in slots :
        /\ ListsAfterCreate(r) /\ req[r].page = 1
        /\ Cardinality(DOMAIN tables[req[r].db][req[r].table]) >= 2
        /\ req[r].limit >= Cardinality(DOMAIN tables[req[r].db][req[r].table])
        /\ HoldsCreated(r)


\* the request of slot r was refused because its table is not in the catalog
RefusedForTable(r) == outcome[r].cause \in {"NoTable", "NoSuchTable"}

\* C17: the catalog is read on every request and never served from a cache:
\* a table added after startup is accepted by the next request naming it, and
\* a table dropped after startup is rejected with SchemaError (a client
\* error) by the next request naming it.
C17_LiveCatalog ==
    \A r \in slots :
        (Done(r) /\ req[r].op \in DataOps /\ Registered(req[r].db)
            /\ ~OperationalFailure(outcome[r]))
        => /\ (req[r].table \notin CatalogTables /\ InCatalog(req[r].db, req[r].table))
              => ~RefusedForTable(r)
           /\ (req[r].table \in CatalogTables /\ ~InCatalog(req[r].db, req[r].table))
              => (RefusedForTable(r) /\ IsClientError(outcome[r]))


C18_ListKeepsSoftDeleted ==
    \A r \in slots :
        (Done(r) /\ req[r].op = "List" /\ outcome[r].kind = "Success")
        => LET t == tables[req[r].db][req[r].table]
               ids == SortedIds(DOMAIN t)
               b == outcome[r].body
               rest == IF Len(ids) > b.skip THEN Len(ids) - b.skip ELSE 0
           IN /\ b.total_records = Cardinality(DOMAIN t)
              /\ Len(b.data) = Min(req[r].limit, rest)
              /\ \A i \in 1 .. Len(b.data) :
                    /\ b.data[i]["id"] = ids[b.skip + i]
                    /\ \A c \in DataColumns : b.data[i][c] = t[ids[b.skip + i]][c]

\* C18 witness: a List answers with a soft-deleted row in its data and
\* counts it in total_records.
C18_Witness ==
    \E r \in slots :
        /\ Done(r) /\ req[r].op = "List" /\ outcome[r].kind = "Success"
        /\ \E i \in 1 .. Len(outcome[r].body.data) :
              /\ outcome[r].body.data[i]["deleted"] = "1"
              /\ outcome[r].body.data[i]["active"] = "0"
        /\ outcome[r].body.total_records = Len(outcome[r].body.data)


\* the outcome classes the spec tells apart
OutcomeClass(o) ==
    IF o.kind = "Success" THEN "Success"
    ELSE IF IsNotFoundError(o) THEN "NotFoundError" ELSE "Failed"

\* what the variant's Update / Patch answers once its UPDATE, which matched
\* rowcount rows, is committed
UpdateAfter(variant, rowcount) ==
    IF variant = "core" THEN APIBridge_update_record_after(rowcount)
    ELSE IF variant = "router" THEN ApiBridgeRouter_update_record_after(rowcount)
    ELSE bridge_update_record_after(rowcount)
PatchAfter(variant, rowcount) ==
    IF variant = "core" THEN APIBridge_patch_record_after(rowcount)
    ELSE IF variant = "router" THEN ApiBridgeRouter_patch_record_after(rowcount)
    ELSE bridge_patch_record_after(rowcount)

\* C15: Patch and Update are mechanically identical: from the same table
\* state, id and payload they leave the same table contents and end in the
\* same outcome class (Success, NotFoundError or other failure), also when
\* the id matches no row.  Both send the same UPDATE; an answered Update
\* (Patch) is compared with what Patch (Update) answers for the same
\* statement and the same number of matched rows.
C15_PatchIsUpdate ==
    \A r \in slots :
        (Done(r) /\ req[r].op \in {"Update", "Patch"} /\ req[r].rowcount >= 0
            /\ ~OperationalFailure(outcome[r]))
        => /\ \A s \in sent[r] : s = Stmt("UPDATE", req[r].table, req[r].id, req[r].record)
           /\ OutcomeClass(outcome[r]) =
                 OutcomeClass(IF req[r].op = "Update"
                              THEN PatchAfter(impl, req[r].rowcount)
                              ELSE UpdateAfter(impl, req[r].rowcount))


PageLen(total, limit, skip) == Min(limit, IF total > skip THEN total - skip ELSE 0)

\* C19: List's data and its pagination come from two statements of one
\* session, the SELECT with LIMIT/OFFSET and then the COUNT.  When no other
\* request commits between the two (the table is as the SELECT read it), the
\* answer has exactly min(limit, max(0, total_records - skip)) records, and a
\* page beyond total_pages is answered Success with empty data.  (When a
\* Create or HardDelete commits in between, total_records can disagree with
\* the rows returned: the witness.)
C19_ListTwoStatements ==
    [][\A r \in slots :
          (/\ Ends(r) /\ req'[r].op = "List" /\ req[r].pc = "selected"
           /\ ~OperationalFailure(outcome'[r])
           /\ sess[r].snapshot = tables[sess[r].db][req[r].table])
          => LET b == outcome'[r].body
             IN /\ outcome'[r].kind = "Success"
                /\ b.total_records = Cardinality(DOMAIN tables[sess[r].db][req[r].table])
                /\ Len(b.data) = PageLen(b.total_records, req[r].limit, b.skip)
                /\ (req[r].page > b.total_pages => b.data = <<>>)]_vars

\* C19 witness: a List is answered Success with a total_records that
\* disagrees with the rows it returns, because another request committed a
\* Create or a HardDelete between its SELECT and its COUNT.
C19_Witness ==
    \E r \in slots :
        /\ Done(r) /\ req[r].op = "List" /\ outcome[r].kind = "Success"
        /\ Len(outcome[r].body.data) #
              PageLen(outcome[r].body.total_records, req[r].limit, outcome[r].body.skip)
        /\ \E o \in slots \ {r} : req[o].op \in {"Create", "HardDelete"}

====
